---- MODULE Spec2Model ----
(***************************************************************************)
(* A model of pixelcanvas.py: the PixelCanvas application object, its      *)
(* Tk event handlers, the worker pool that fetches images and the          *)
(* callbacks the workers post back to the Tk main loop with root.after.    *)
(*                                                                         *)
(* Python lists are modelled as TLA+ sequences, so list index i of the     *)
(* source is index i+1 of the model; dicts are records; None is a record   *)
(* of its own.  The preset menu is taken to be fully populated (every      *)
(* thumbnail of setup_ui has loaded), which only adds behaviours.          *)
(***************************************************************************)
EXTENDS Integers, Sequences, FiniteSets

\* ---------------------------------------------------------------- bounds
\* The grid of the source is 20 x 20 (CANVAS_SIZE // CELL_SIZE); the model
\* is checked on a smaller one.
ROWS ==
  2

COLS ==
  3

\* How many image-brush fetches may be outstanding at once (the source has
\* no limit: every click on a preset submits a new task).
MaxBrushFetches ==
  1

\* ------------------------------------------------------------ vocabulary
COLOR_PALETTE == {"#000000", "#FF0000"}

DefaultColor == "#ffffff"

PresetUrls == {"u1", "u2"}

LocalPaths == {"p1"}

None == [type |-> "None", val |-> "None"]

ColorCell(c) == [mode |-> "color", val |-> c]

ImageCell(kind, v) == [mode |-> kind, val |-> v]

WhiteCell == ColorCell(DefaultColor)

RowIdx == 0 .. (ROWS - 1)

ColIdx == 0 .. (COLS - 1)

Pos == RowIdx \X ColIdx

\* grid_data[row][col] of the source
At(g, row, col) == g[row + 1][col + 1]

\* grid_data[row][col] = cell
SetCell(g, row, col, cell) ==
  [g EXCEPT ![row + 1] = [g[row + 1] EXCEPT ![col + 1] = cell]]

\* [[white for _ in range(COLS)] for _ in range(ROWS)]
BlankGrid == [r \in 1 .. ROWS |-> [c \in 1 .. COLS |-> WhiteCell]]

\* a text of the status label: the message and what it names
St(msg, arg) == [msg |-> msg, arg |-> arg]

Urls == PresetUrls

\* what self.executor runs: _load_in_thread of preload_image_from_url
\* ("preload") and of load_preset_image_brush ("brush")
Tasks == [kind : {"preload", "brush"}, url : Urls]

NoTasks == [t \in Tasks |-> 0]

VARIABLES
  grid_data,           \* self.grid_data
  current_mode,        \* self.current_mode
  current_color,       \* self.current_color
  current_image_info,  \* self.current_image_info
  cell_images,         \* keys of self.cell_images
  loading_images,      \* keys of self.loading_images
  executor,            \* tasks submitted to self.executor and not finished
  after_queue,         \* callbacks posted with root.after(0, ...), in order
  motion_bound,        \* whether <B1-Motion> is bound on the canvas
  pressed,             \* mouse button 1: "none" when up, else the kind of tool
                       \* that was current at its <ButtonPress-1>
  status,              \* text of the status label
  disk,                \* content of the file save_canvas writes
  fill_log,            \* the last fill_area pass: its arguments and writes
  canvas               \* the items on self.canvas, one per cell drawn

vars ==
  <<grid_data, current_mode, current_color, current_image_info, cell_images,
    loading_images, executor, after_queue, motion_bound, pressed, status, disk,
    fill_log, canvas>>

\* The one element of a singleton set: Only({e}) is e, evaluated once.
Only(S) == CHOOSE x \in S : TRUE

\* ------------------------------------------------------------ the canvas
\* A cell read from a file is whatever the file holds, a dict or None;
\* cell['mode'] raises on None and on a dict without that key.
HasMode(cell) == "mode" \in DOMAIN cell

\* the place of (row, col) in the row-major order of the loops over cells
CellIndex(row, col) == row * COLS + col

\* The first cell, in row-major order, on which cell['mode'] raises; ROWS *
\* COLS when there is none.
FirstBad(g) ==
  IF \A p \in Pos : HasMode(At(g, p[1], p[2]))
  THEN ROWS * COLS
  ELSE CHOOSE i \in 0 .. (ROWS * COLS - 1) :
         /\ ~HasMode(At(g, i \div COLS, i % COLS))
         /\ \A j \in 0 .. (i - 1) : HasMode(At(g, j \div COLS, j % COLS))

\* line 172 raises on some cell of g
RedrawRaises(g) == FirstBad(g) < ROWS * COLS

\* nothing drawn on a cell
NoItem == [item |-> "none"]

Placeholder == "#e0e0e0"

\* lines 172-181: the item redraw_canvas creates for one cell
CanvasItem(cell, images) ==
  IF cell.mode = "color"
  THEN [item |-> "rectangle", fill |-> cell.val]
  ELSE IF cell.mode \in {"image_url", "image_local"}
  THEN IF <<cell.mode, cell.val>> \in images
       THEN [item |-> "image", image |-> <<cell.mode, cell.val>>]
       ELSE [item |-> "rectangle", fill |-> Placeholder]
  ELSE NoItem

\* lines 165-181: the canvas after redraw_canvas, which deletes every item
\* and draws the cells in row-major order up to the first that raises
redraw_canvas(g, images) ==
  Only({[r \in 1 .. ROWS |->
           [c \in 1 .. COLS |->
              IF CellIndex(r - 1, c - 1) < first
              THEN CanvasItem(g[r][c], images)
              ELSE NoItem]] : first \in {FirstBad(g)}})

\* lines 527-536: what export_as_image puts on the raster for one cell; the
\* raster starts white
ExportItem(cell, images) ==
  IF cell.mode = "color"
  THEN [item |-> "rectangle", fill |-> cell.val]
  ELSE IF cell.mode \in {"image_url", "image_local"}
  THEN IF <<cell.mode, cell.val>> \in images
       THEN [item |-> "image", image |-> <<cell.mode, cell.val>>]
       ELSE [item |-> "rectangle", fill |-> Placeholder]
  ELSE [item |-> "rectangle", fill |-> "white"]

\* ------------------------------------------------------------- flood fill
Directions == <<(<<0, 1>>), (<<0, -1>>), (<<1, 0>>), (<<-1, 0>>)>>

\* lines 258-262 without the bounds test: an index one off the grid wraps
\* to the other side
VisitNeighbourNoBounds(st, row, col, d, target_cell, new_content) ==
  LET n_row == row + d[1]
      n_col == col + d[2]
      wr == ((n_row % ROWS) + ROWS) % ROWS
      wc == ((n_col % COLS) + COLS) % COLS
  IN  IF At(st.grid, wr, wc) = target_cell
      THEN [grid |-> SetCell(st.grid, wr, wc, new_content),
            q |-> Append(st.q, <<wr, wc>>),
            written |-> Append(st.written, <<wr, wc>>)]
      ELSE st

\* lines 258-262: one neighbour of (row, col)
VisitNeighbour(st, row, col, d, target_cell, new_content) ==
  LET n_row == row + d[1]
      n_col == col + d[2]
  IN  IF /\ 0 <= n_row /\ n_row < ROWS /\ 0 <= n_col /\ n_col < COLS
         /\ At(st.grid, n_row, n_col) = target_cell
      THEN [grid |-> SetCell(st.grid, n_row, n_col, new_content),
            q |-> Append(st.q, <<n_row, n_col>>),
            written |-> Append(st.written, <<n_row, n_col>>)]
      ELSE st

\* lines 257-262 with the four diagonal directions added to the list
VisitAllWithDiagonals(st, row, col, target_cell, new_content) ==
  Only({VisitNeighbour(s7, row, col, <<-1, -1>>, target_cell, new_content) :
    s7 \in {VisitNeighbour(s6, row, col, <<-1, 1>>, target_cell, new_content) :
    s6 \in {VisitNeighbour(s5, row, col, <<1, -1>>, target_cell, new_content) :
    s5 \in {VisitNeighbour(s4, row, col, <<1, 1>>, target_cell, new_content) :
    s4 \in {VisitNeighbour(s3, row, col, Directions[4], target_cell, new_content) :
    s3 \in {VisitNeighbour(s2, row, col, Directions[3], target_cell, new_content) :
    s2 \in {VisitNeighbour(s1, row, col, Directions[2], target_cell, new_content) :
    s1 \in {VisitNeighbour(st, row, col, Directions[1], target_cell,
                           new_content)}}}}}}}})

\* lines 257-262: the for loop over the four directions, in source order
VisitAll(st, row, col, target_cell, new_content) ==
  Only({VisitNeighbour(s3, row, col, Directions[4], target_cell, new_content) :
    s3 \in {VisitNeighbour(s2, row, col, Directions[3], target_cell, new_content) :
      s2 \in {VisitNeighbour(s1, row, col, Directions[2], target_cell, new_content) :
        s1 \in {VisitNeighbour(st, row, col, Directions[1], target_cell,
                               new_content)}}}})

\* lines 253-262 with the write moved from the enqueue to the dequeue
RECURSIVE FillLoopMarkOnDequeue(_, _, _, _)
FillLoopMarkOnDequeue(st, target_cell, new_content, fuel) ==
  IF st.q = <<>> \/ fuel = 0
  THEN st
  ELSE LET cur == Head(st.q)
           near == {p \in Pos : \E i \in 1 .. 4 :
                       p = <<cur[1] + Directions[i][1], cur[2] + Directions[i][2]>>}
           todo == {p \in near : At(st.grid, p[1], p[2]) = target_cell}
           RECURSIVE AsSeq(_)
           AsSeq(S) == IF S = {} THEN <<>>
                       ELSE LET x == CHOOSE y \in S : TRUE
                            IN  <<x>> \o AsSeq(S \ {x})
       IN  Only({FillLoopMarkOnDequeue(next, target_cell, new_content, fuel - 1) :
                   next \in {[grid |-> SetCell(st.grid, cur[1], cur[2], new_content),
                              q |-> Tail(st.q) \o AsSeq(todo),
                              written |-> Append(st.written, cur)]}})

\* lines 253-262: the while loop.  fuel caps the number of dequeues; a pass
\* that stops with a non-empty queue did not finish within the cap.
RECURSIVE FillLoop(_, _, _, _)
FillLoop(st, target_cell, new_content, fuel) ==
  IF st.q = <<>> \/ fuel = 0
  THEN st
  ELSE Only({FillLoop(next, target_cell, new_content, fuel - 1) :
               next \in {VisitAll([st EXCEPT !.q = Tail(st.q)], Head(st.q)[1],
                                  Head(st.q)[2], target_cell, new_content)}})

\* A cap no terminating pass reaches: a pass that writes each cell at most
\* once dequeues at most ROWS * COLS cells, and the cap is twice that.
FillFuel == 2 * ROWS * COLS

\* lines 250-262: seed the queue, write the start cell, run the loop
FillPass(g, start_row, start_col, new_content) ==
  Only({FillLoop(st, At(g, start_row, start_col), new_content, FillFuel) :
          st \in {[grid |-> SetCell(g, start_row, start_col, new_content),
                   q |-> <<(<<start_row, start_col>>)>>,
                   written |-> <<(<<start_row, start_col>>)>>]}})

\* lines 246-262 without the equality test of lines 247-248
FloodFillNoEqualityTest(g, start_row, start_col, new_content) ==
  FillPass(g, start_row, start_col, new_content)

\* lines 246-262
FloodFill(g, start_row, start_col, new_content) ==
  LET target_cell == At(g, start_row, start_col)
  IN  IF target_cell = new_content
      THEN [grid |-> g, q |-> <<>>, written |-> <<>>]
      ELSE FillPass(g, start_row, start_col, new_content)

\* lines 236-244: the content fill_area writes, or None when no branch applies
FillContent(mode, color, image_info) ==
  IF mode = "color" THEN ColorCell(color)
  ELSE IF mode = "image" /\ image_info # None
       THEN ImageCell(image_info.type, image_info.val)
  ELSE IF mode = "erase" THEN WhiteCell
  ELSE None

NoFill == [row |-> -1, col |-> -1, target |-> None, new |-> None, written |-> <<>>,
           drained |-> TRUE]

\* lines 234-265
fill_area(start_row, start_col) ==
  LET target_cell == At(grid_data, start_row, start_col)
      new_content == FillContent(current_mode, current_color, current_image_info)
  IN  IF new_content = None
      THEN /\ status' = St("Error: Select a brush", "")
           /\ UNCHANGED <<grid_data, fill_log, canvas>>
      ELSE \E res \in {FloodFill(grid_data, start_row, start_col, new_content)} :
             /\ grid_data' = res.grid
             /\ fill_log' = [row |-> start_row, col |-> start_col,
                             target |-> target_cell, new |-> new_content,
                             written |-> res.written, drained |-> res.q = <<>>]
             /\ canvas' = IF target_cell = new_content THEN canvas
                          ELSE redraw_canvas(res.grid, cell_images)
             /\ status' = IF target_cell = new_content \/ RedrawRaises(res.grid)
                          THEN status
                          ELSE St("Fill operation complete!", "")

\* lines 214-221
draw_pixel(row, col) ==
  /\ grid_data' =
       IF current_mode = "color"
       THEN SetCell(grid_data, row, col, ColorCell(current_color))
       ELSE IF current_mode = "image" /\ current_image_info # None
       THEN SetCell(grid_data, row, col,
                    ImageCell(current_image_info.type, current_image_info.val))
       ELSE IF current_mode = "erase"
       THEN SetCell(grid_data, row, col, WhiteCell)
       ELSE grid_data
  /\ canvas' = redraw_canvas(grid_data', cell_images)
  /\ UNCHANGED <<status, fill_log>>

\* lines 196-203 with an event off the grid moved to the nearest cell
\* instead of being dropped
handle_canvas_event_clamped(row, col) ==
  LET r == IF row < 0 THEN 0 ELSE IF row >= ROWS THEN ROWS - 1 ELSE row
      c == IF col < 0 THEN 0 ELSE IF col >= COLS THEN COLS - 1 ELSE col
  IN  IF current_mode = "fill"
      THEN fill_area(r, c)
      ELSE draw_pixel(r, c)

\* lines 196-203, with col = event.x // cell_size and row = event.y // cell_size
handle_canvas_event(row, col) ==
  IF 0 <= col /\ col < COLS /\ 0 <= row /\ row < ROWS
  THEN IF current_mode = "fill"
       THEN fill_area(row, col)
       ELSE draw_pixel(row, col)
  ELSE UNCHANGED <<grid_data, status, fill_log, canvas>>

\* The cells a pointer event can map to: every cell of the grid and the
\* positions just outside it.
PointerRows == -1 .. ROWS

PointerCols == -1 .. COLS

\* lines 273-277: line 275 is not reached when redraw_canvas raises in
\* draw_pixel
on_mouse_down(row, col) ==
  /\ handle_canvas_event(row, col)
  /\ motion_bound' =
       IF /\ current_mode # "fill"
          /\ ~(/\ 0 <= col /\ col < COLS /\ 0 <= row /\ row < ROWS
               /\ RedrawRaises(grid_data'))
       THEN TRUE
       ELSE motion_bound
  /\ pressed' = IF current_mode = "fill" THEN "fill" ELSE "paint"
  /\ UNCHANGED <<current_mode, current_color, current_image_info, cell_images,
                 loading_images, executor, after_queue, disk>>

\* line 275: the <B1-Motion> binding calls handle_canvas_event while bound
on_mouse_drag(row, col) ==
  /\ motion_bound
  /\ handle_canvas_event(row, col)
  /\ UNCHANGED <<current_mode, current_color, current_image_info, cell_images,
                 loading_images, executor, after_queue, disk, motion_bound, pressed>>

\* line 281 with the unbind left out
on_mouse_up_bound ==
  /\ motion_bound' = motion_bound
  /\ pressed' = "none"
  /\ UNCHANGED <<grid_data, current_mode, current_color, current_image_info,
                 cell_images, loading_images, executor, after_queue, status,
                 disk, fill_log, canvas>>

\* line 281
on_mouse_up ==
  /\ motion_bound' = FALSE
  /\ pressed' = "none"
  /\ UNCHANGED <<grid_data, current_mode, current_color, current_image_info,
                 cell_images, loading_images, executor, after_queue, status,
                 disk, fill_log, canvas>>

\* lines 313-316
select_color(color) ==
  /\ current_mode' = "color"
  /\ current_color' = color
  /\ current_image_info' = None
  /\ status' = St("Tool: Pixel", color)
  /\ UNCHANGED <<grid_data, cell_images, loading_images, executor, after_queue,
                 motion_bound, pressed, disk, fill_log, canvas>>

\* lines 320-323
select_eraser ==
  /\ current_mode' = "erase"
  /\ current_color' = DefaultColor
  /\ current_image_info' = None
  /\ status' = St("Tool: Eraser", "")
  /\ UNCHANGED <<grid_data, cell_images, loading_images, executor, after_queue,
                 motion_bound, pressed, disk, fill_log, canvas>>

\* lines 327-328
select_fill_tool ==
  /\ current_mode' = "fill"
  /\ status' = St("Tool: Fill", "")
  /\ UNCHANGED <<grid_data, current_color, current_image_info, cell_images,
                 loading_images, executor, after_queue, motion_bound, pressed, disk,
                 fill_log, canvas>>

\* lines 301-304, the dialog answered yes
clear_canvas ==
  /\ grid_data' = BlankGrid
  /\ canvas' = redraw_canvas(BlankGrid, cell_images)
  /\ status' = St("Canvas cleared.", "")
  /\ UNCHANGED <<current_mode, current_color, current_image_info, cell_images,
                 loading_images, executor, after_queue, motion_bound, pressed, disk,
                 fill_log>>

\* lines 335-347: ok is whether Image.open and the resize succeed
load_image_brush(file_path, ok) ==
  /\ IF ok
     THEN /\ current_mode' = "image"
          /\ current_image_info' = [type |-> "image_local", val |-> file_path]
          /\ cell_images' = cell_images \cup {<<"image_local", file_path>>}
          /\ status' = St("Tool: Image, File", file_path)
     ELSE UNCHANGED <<current_mode, current_image_info, cell_images, status>>
  /\ UNCHANGED <<grid_data, current_color, loading_images, executor, after_queue,
                 motion_bound, pressed, disk, fill_log, canvas>>

\* ---------------------------------------------------- workers and callbacks
Submit(pool, task) == [pool EXCEPT ![task] = @ + 1]

Callback(fn, url) == [fn |-> fn, url |-> url]

\* the fetches of load_preset_image_brush that are submitted or whose
\* callbacks are still queued
BrushFetches ==
  LET run == {t \in Tasks : t.kind = "brush"}
      RECURSIVE Sum(_)
      Sum(S) == IF S = {} THEN 0
                ELSE LET t == CHOOSE x \in S : TRUE
                     IN  executor[t] + Sum(S \ {t})
  IN  Sum(run) + Cardinality({i \in DOMAIN after_queue :
                                after_queue[i].fn \in {"update_brush", "select_color"}})

\* lines 382-399, the part run on the Tk thread
load_preset_image_brush(url) ==
  /\ BrushFetches < MaxBrushFetches
  /\ status' = St("Loading preset image", url)
  /\ executor' = Submit(executor, [kind |-> "brush", url |-> url])
  /\ UNCHANGED <<grid_data, current_mode, current_color, current_image_info,
                 cell_images, loading_images, after_queue, motion_bound, pressed, disk,
                 fill_log, canvas>>

\* lines 385-398 and 462-469: _load_in_thread runs on a worker and posts its
\* callbacks with root.after; ok is whether the fetch and the decode succeed
WorkerPosts(task, ok) ==
  IF task.kind = "preload"
  THEN IF ok THEN <<Callback("cache_and_redraw", task.url)>>
             ELSE <<Callback("handle_preload_error", task.url)>>
  ELSE IF ok THEN <<Callback("update_brush", task.url)>>
             ELSE <<Callback("select_color", task.url),
                    Callback("update_status", task.url)>>

\* lines 385-398 and 462-469 with the worker storing the decoded image in
\* cell_images itself
load_in_thread_caching(task, ok) ==
  /\ executor[task] > 0
  /\ executor' = [executor EXCEPT ![task] = @ - 1]
  /\ after_queue' = after_queue \o WorkerPosts(task, ok)
  /\ cell_images' = IF ok THEN cell_images \cup {<<"image_url", task.url>>}
                    ELSE cell_images
  /\ UNCHANGED <<grid_data, current_mode, current_color, current_image_info,
                 loading_images, motion_bound, pressed, status, disk, fill_log, canvas>>

load_in_thread(task, ok) ==
  /\ executor[task] > 0
  /\ executor' = [executor EXCEPT ![task] = @ - 1]
  /\ after_queue' = after_queue \o WorkerPosts(task, ok)
  /\ UNCHANGED <<grid_data, current_mode, current_color, current_image_info,
                 cell_images, loading_images, motion_bound, pressed, status, disk,
                 fill_log, canvas>>

\* lines 482-485 and 501-504 with the test of cell['val'] left out: every
\* cell of the mode becomes white
ResetCellsOfMode(g, mode, val) ==
  Only({[r \in DOMAIN g |->
           [c \in DOMAIN g[r] |->
              IF /\ CellIndex(r - 1, c - 1) < first
                 /\ g[r][c].mode = mode
              THEN WhiteCell
              ELSE g[r][c]]] : first \in {FirstBad(g)}})

\* lines 482-485 and 501-504: every cell holding (mode, val) becomes white,
\* in row-major order up to the first cell on which cell['mode'] raises
ResetCells(g, mode, val) ==
  Only({[r \in DOMAIN g |->
           [c \in DOMAIN g[r] |->
              IF /\ CellIndex(r - 1, c - 1) < first
                 /\ g[r][c].mode = mode
                 /\ g[r][c].val = val
              THEN WhiteCell
              ELSE g[r][c]]] : first \in {FirstBad(g)}})

\* lines 490-493 with the deletion of lines 491-492 left out: the key is
\* cached and stays in loading_images
cache_and_redraw_keeping(key) ==
  /\ cell_images' = cell_images \cup {key}
  /\ loading_images' = loading_images
  /\ canvas' = redraw_canvas(grid_data, cell_images')
  /\ UNCHANGED <<grid_data, current_mode, current_color, current_image_info,
                 status>>

\* lines 490-493
cache_and_redraw(key) ==
  /\ cell_images' = cell_images \cup {key}
  /\ loading_images' = loading_images \ {key[2]}
  /\ canvas' = redraw_canvas(grid_data, cell_images')
  /\ UNCHANGED <<grid_data, current_mode, current_color, current_image_info,
                 status>>

\* lines 497-505: line 505 is not reached when the loop raises
handle_preload_error(url) ==
  /\ loading_images' = loading_images \ {url}
  /\ grid_data' = ResetCells(grid_data, "image_url", url)
  /\ canvas' = IF RedrawRaises(grid_data) THEN canvas
               ELSE redraw_canvas(grid_data', cell_images)
  /\ UNCHANGED <<current_mode, current_color, current_image_info, cell_images,
                 status>>

\* lines 403-406 with the new brush also painted on the first cell
update_brush_painting(url) ==
  /\ current_mode' = "image"
  /\ current_image_info' = [type |-> "image_url", val |-> url]
  /\ cell_images' = cell_images \cup {<<"image_url", url>>}
  /\ status' = St("Tool: Image, Preset", url)
  /\ grid_data' = SetCell(grid_data, 0, 0, ImageCell("image_url", url))
  /\ UNCHANGED <<current_color, loading_images, canvas>>

\* lines 403-406
update_brush(url) ==
  /\ current_mode' = "image"
  /\ current_image_info' = [type |-> "image_url", val |-> url]
  /\ cell_images' = cell_images \cup {<<"image_url", url>>}
  /\ status' = St("Tool: Image, Preset", url)
  /\ UNCHANGED <<grid_data, current_color, loading_images, canvas>>

\* The Tk main loop runs the oldest callback posted with root.after(0, ...).
run_after ==
  /\ after_queue # <<>>
  /\ after_queue' = Tail(after_queue)
  /\ LET cb == Head(after_queue)
     IN  CASE cb.fn = "cache_and_redraw" -> cache_and_redraw(<<"image_url", cb.url>>)
           [] cb.fn = "handle_preload_error" -> handle_preload_error(cb.url)
           [] cb.fn = "update_brush" -> update_brush(cb.url)
           [] cb.fn = "select_color" ->
                \* lines 393 and 397: select_color("#000000")
                /\ current_mode' = "color"
                /\ current_color' = "#000000"
                /\ current_image_info' = None
                /\ status' = St("Tool: Pixel", "#000000")
                /\ UNCHANGED <<grid_data, cell_images, loading_images, canvas>>
           [] cb.fn = "update_status" ->
                \* lines 394 and 398
                /\ status' = St("Loading failed.", "")
                /\ UNCHANGED <<grid_data, current_mode, current_color,
                               current_image_info, cell_images, loading_images,
                               canvas>>
  /\ UNCHANGED <<executor, motion_bound, pressed, disk, fill_log>>

\* ------------------------------------------------------------ persistence
\* A JSON document is a tree of arrays, objects, strings and nulls; a file
\* that is not JSON is Garbage, and None stands for a file that cannot be
\* opened.
JArr(items) == [t |-> "array", items |-> items]

JObj(fields) == [t |-> "object", fields |-> fields]

JStr(str) == [t |-> "string", str |-> str]

JNull == [t |-> "null"]

Garbage == [t |-> "garbage"]

\* json.dump as lines 414-415 apply it to a cell, with every cell written as
\* a colour cell
DumpCellAsColor(cell) ==
  IF cell = None THEN JNull
  ELSE JObj([k \in DOMAIN cell |->
               IF k = "mode" THEN JStr("color") ELSE JStr(cell[k])])

\* json.dump of a dict of strings or of None, as lines 414-415 apply it to
\* a cell
DumpCell(cell) ==
  IF cell = None THEN JNull
  ELSE JObj([k \in DOMAIN cell |-> JStr(cell[k])])

\* json.dump(self.grid_data, f), lines 414-415
json_dump(g) ==
  JArr([r \in DOMAIN g |-> JArr([c \in DOMAIN g[r] |-> DumpCell(g[r][c])])])

\* json.load(f), line 431: arrays become lists, objects dicts, strings
\* str, null None
RECURSIVE json_load(_)
json_load(doc) ==
  CASE doc.t = "array" -> [i \in DOMAIN doc.items |-> json_load(doc.items[i])]
    [] doc.t = "object" -> [k \in DOMAIN doc.fields |-> json_load(doc.fields[k])]
    [] doc.t = "string" -> doc.str
    [] doc.t = "null" -> None

\* lines 410-418, a path chosen and the write succeeding
save_canvas ==
  /\ disk' = json_dump(grid_data)
  /\ status' = St("Canvas saved to", "saved.json")
  /\ UNCHANGED <<grid_data, current_mode, current_color, current_image_info,
                 cell_images, loading_images, executor, after_queue,
                 motion_bound, pressed, fill_log, canvas>>

\* lines 512-541, a path chosen and the write succeeding: the raster is
\* built from grid_data and cell_images and saved; the loop raises on a cell
\* without 'mode' and then nothing is saved
export_as_image ==
  /\ status' = IF RedrawRaises(grid_data) THEN status
               ELSE St("Canvas exported to", "export.png")
  /\ UNCHANGED <<grid_data, current_mode, current_color, current_image_info,
                 cell_images, loading_images, executor, after_queue,
                 motion_bound, pressed, disk, fill_log, canvas>>

\* The grid that is white but for the cells f names.
GridWith(f) ==
  [r \in 1 .. ROWS |->
     [c \in 1 .. COLS |->
        IF <<r - 1, c - 1>> \in DOMAIN f THEN f[<<r - 1, c - 1>>] ELSE WhiteCell]]

Last == <<ROWS - 1, COLS - 1>>

\* The files a load can name: the one save_canvas writes and fixed ones.
FilePaths ==
  {"saved.json", "twice_u1.json", "u1_u2.json", "local.json", "tall.json",
   "wide.json", "ragged.json", "garbage.json", "missing.json", "mixed.json",
   "nomode.json", "null.json"}

TwiceU1Doc ==
  json_dump(GridWith([p \in {<<0, 0>>, <<0, 1>>} |-> ImageCell("image_url", "u1")]))

U1U2Doc ==
  json_dump(GridWith([p \in {<<0, 0>>, Last} |->
              IF p = Last THEN ImageCell("image_url", "u2")
              ELSE ImageCell("image_url", "u1")]))

LocalDoc ==
  json_dump(GridWith([p \in {<<0, 0>>, <<0, 1>>, Last} |->
              IF p = <<0, 1>> THEN ColorCell("#000000")
              ELSE ImageCell("image_local", "p1")]))

\* one row too many
TallDoc ==
  json_dump(Append(GridWith([p \in {<<0, 0>>} |-> ImageCell("image_url", "u2")]),
                   [c \in 1 .. COLS |-> WhiteCell]))

\* one cell too many in the first row
WideDoc ==
  json_dump([GridWith([p \in {<<0, 0>>} |-> ImageCell("image_local", "p1")])
               EXCEPT ![1] = Append(@, WhiteCell)])

\* one cell too few in the last row
RaggedDoc ==
  json_dump([GridWith([p \in {<<0, 0>>} |-> ColorCell("#FF0000")])
               EXCEPT ![ROWS] = Tail(@)])

\* two remote images, a local one and a colour
MixedDoc ==
  json_dump(GridWith([p \in {<<0, 0>>, <<0, 1>>, <<0, 2>>, Last} |->
              CASE p = <<0, 0>> -> ImageCell("image_url", "u1")
                [] p = <<0, 1>> -> ColorCell("#000000")
                [] p = <<0, 2>> -> ImageCell("image_local", "p1")
                [] p = Last -> ImageCell("image_url", "u2")]))

\* the right shape, with a remote image in the first cell and a last cell
\* that has no 'mode'
NoModeDoc ==
  json_dump(GridWith([p \in {<<0, 0>>, Last} |->
              IF p = Last THEN [val |-> "#000000"]
              ELSE ImageCell("image_url", "u1")]))

\* the right shape, with a remote image in the first cell and null for the
\* last cell
NullDoc ==
  json_dump(GridWith([p \in {<<0, 0>>, Last} |->
              IF p = Last THEN None ELSE ImageCell("image_url", "u1")]))

\* the fixed files
SampleDocs ==
  [file_path \in FilePaths \ {"saved.json"} |->
     CASE file_path = "twice_u1.json" -> TwiceU1Doc
       [] file_path = "u1_u2.json" -> U1U2Doc
       [] file_path = "local.json" -> LocalDoc
       [] file_path = "tall.json" -> TallDoc
       [] file_path = "wide.json" -> WideDoc
       [] file_path = "ragged.json" -> RaggedDoc
       [] file_path = "mixed.json" -> MixedDoc
       [] file_path = "nomode.json" -> NoModeDoc
       [] file_path = "null.json" -> NullDoc
       [] file_path = "garbage.json" -> Garbage
       [] file_path = "missing.json" -> None]

\* what open(file_path) and json.load read at lines 430-431
FileContent(file_path) ==
  IF file_path = "saved.json" THEN disk ELSE SampleDocs[file_path]

\* lines 456-471 without line 459
preload_image_from_url_unmarked(st, url) ==
  IF url \in st.loading_images
  THEN st
  ELSE [st EXCEPT !.executor = Submit(@, [kind |-> "preload", url |-> url])]

\* lines 456-471, on the caches a load is building
preload_image_from_url(st, url) ==
  IF url \in st.loading_images
  THEN st
  ELSE [st EXCEPT !.loading_images = @ \cup {url},
                  !.executor = Submit(@, [kind |-> "preload", url |-> url])]

\* lines 475-486: ok is whether Image.open and the resize succeed.  When
\* redraw_canvas raises at line 479 the except branch runs as for a failed
\* open; its loop raises on the same cell, out of the method.
preload_image_from_local(st, file_path, ok) ==
  IF ok
  THEN IF RedrawRaises(st.grid_data)
       THEN [st EXCEPT !.cell_images = @ \cup {<<"image_local", file_path>>},
                       !.canvas = redraw_canvas(st.grid_data,
                                    st.cell_images \cup {<<"image_local", file_path>>}),
                       !.grid_data = ResetCells(@, "image_local", file_path),
                       !.raised = TRUE]
       ELSE [st EXCEPT !.cell_images = @ \cup {<<"image_local", file_path>>},
                       !.canvas = redraw_canvas(st.grid_data,
                                    st.cell_images \cup {<<"image_local", file_path>>})]
  ELSE IF RedrawRaises(st.grid_data)
       THEN [st EXCEPT !.grid_data = ResetCells(@, "image_local", file_path),
                       !.raised = TRUE]
       ELSE [st EXCEPT !.grid_data = ResetCells(@, "image_local", file_path),
                       !.canvas = redraw_canvas(
                                    ResetCells(st.grid_data, "image_local", file_path),
                                    st.cell_images)]

\* lines 440-444: one cell of the load loop; cell['mode'] raises on a cell
\* without that key
LoadCell(st, row, col, readable) ==
  LET cell == At(st.grid_data, row, col)
  IN  IF ~HasMode(cell)
      THEN [st EXCEPT !.raised = TRUE]
      ELSE IF cell.mode = "image_url" /\ cell.val \notin st.loading_images
      THEN preload_image_from_url(st, cell.val)
      ELSE IF /\ cell.mode = "image_local"
              /\ <<"image_local", cell.val>> \notin st.cell_images
      THEN preload_image_from_local(st, cell.val, cell.val \in readable)
      ELSE st

\* lines 438-444 with the loop stopping after the first row
RECURSIVE LoadLoopFirstRowOnly(_, _, _)
LoadLoopFirstRowOnly(st, i, readable) ==
  IF i >= COLS \/ st.raised
  THEN st
  ELSE Only({LoadLoopFirstRowOnly(next, i + 1, readable) :
               next \in {LoadCell(st, i \div COLS, i % COLS, readable)}})

\* lines 438-444: the cells in row-major order, from the i-th on, until
\* one raises
RECURSIVE LoadLoop(_, _, _)
LoadLoop(st, i, readable) ==
  IF i >= ROWS * COLS \/ st.raised
  THEN st
  ELSE Only({LoadLoop(next, i + 1, readable) :
               next \in {LoadCell(st, i \div COLS, i % COLS, readable)}})

\* line 436: self.cell_images.clear()
clear(st) == [st EXCEPT !.cell_images = {}]

\* line 432 with only the lengths of the rows tested
BadDimensionsColsOnly(new_grid_data) ==
  \E r \in DOMAIN new_grid_data : Len(new_grid_data[r]) # COLS

\* line 432
BadDimensions(new_grid_data) ==
  \/ Len(new_grid_data) # ROWS
  \/ \E r \in DOMAIN new_grid_data : Len(new_grid_data[r]) # COLS

\* lines 429-452: readable is the set of local image files that open and
\* decode during this load
load_canvas(file_path, readable) ==
  LET doc == FileContent(file_path)
  IN  /\ IF doc = None \/ doc = Garbage
         THEN \* lines 447-449
              /\ status' = St("Failed to load canvas.", file_path)
              /\ UNCHANGED <<grid_data, cell_images, loading_images, executor,
                             canvas>>
         ELSE \E new_grid_data \in {json_load(doc)} :
                IF BadDimensions(new_grid_data)
                THEN \* lines 433 and 450-452
                     /\ status' = St("Failed to load canvas.", file_path)
                     /\ UNCHANGED <<grid_data, cell_images, loading_images,
                                    executor, canvas>>
                ELSE \* lines 435-446, and 450-452 when the loop raises
                     \E st \in {LoadLoop(clear([grid_data |-> new_grid_data,
                                                cell_images |-> cell_images,
                                                loading_images |-> loading_images,
                                                executor |-> executor,
                                                canvas |-> canvas,
                                                raised |-> FALSE]),
                                         0, readable)} :
                       /\ grid_data' = st.grid_data
                       /\ cell_images' = st.cell_images
                       /\ loading_images' = st.loading_images
                       /\ executor' = st.executor
                       /\ canvas' = IF st.raised THEN st.canvas
                                    ELSE redraw_canvas(st.grid_data, st.cell_images)
                       /\ status' = IF st.raised
                                    THEN St("Failed to load canvas.", file_path)
                                    ELSE St("Canvas loaded from", file_path)
      /\ UNCHANGED <<current_mode, current_color, current_image_info,
                     after_queue, motion_bound, pressed, disk, fill_log>>

\* ------------------------------------------------------- the application
\* lines 52-73: the state __init__ leaves, select_color(self.current_color)
\* of line 73 included
Init ==
  /\ grid_data = BlankGrid
  /\ current_mode = "color"
  /\ current_color = "#000000"
  /\ current_image_info = None
  /\ cell_images = {}
  /\ loading_images = {}
  /\ executor = NoTasks
  /\ after_queue = <<>>
  /\ motion_bound = FALSE
  /\ pressed = "none"
  /\ status = St("Tool: Pixel", "#000000")
  /\ disk = None
  /\ fill_log = NoFill
  /\ canvas = redraw_canvas(BlankGrid, {})

\* The cells the pointer events of the specifications below land on: the
\* first cell, its right neighbour, the last cell, and two off the grid.
Pointers == {<<0, 0>>, <<0, 1>>, Last, <<-1, 0>>, <<0, COLS>>}

\* Every handler of the application, on any cell of the canvas and around it.
Next ==
  \/ \E color \in COLOR_PALETTE : select_color(color)
  \/ select_eraser
  \/ select_fill_tool
  \/ \E url \in PresetUrls : load_preset_image_brush(url)
  \/ \E file_path \in LocalPaths, ok \in BOOLEAN : load_image_brush(file_path, ok)
  \/ \E row \in PointerRows, col \in PointerCols : on_mouse_down(row, col)
  \/ \E row \in PointerRows, col \in PointerCols : on_mouse_drag(row, col)
  \/ on_mouse_up
  \/ clear_canvas
  \/ save_canvas
  \/ export_as_image
  \/ \E file_path \in FilePaths, readable \in SUBSET LocalPaths :
       load_canvas(file_path, readable)
  \/ \E task \in Tasks, ok \in BOOLEAN : load_in_thread(task, ok)
  \/ run_after

Spec == Init /\ [][Next]_vars

\* The asset traffic: loads of files that name remote images, selections of
\* preset brushes, the workers and their callbacks.
AssetFiles == {"twice_u1.json", "u1_u2.json"}

NextAssets ==
  \/ \E url \in PresetUrls : load_preset_image_brush(url)
  \/ \E file_path \in AssetFiles : load_canvas(file_path, {})
  \/ \E task \in Tasks, ok \in BOOLEAN : load_in_thread(task, ok)
  \/ run_after

SpecAssets == Init /\ [][NextAssets]_vars

\* The tools: brush selections and pointer events.
NextTools ==
  \/ \E color \in COLOR_PALETTE : select_color(color)
  \/ select_eraser
  \/ select_fill_tool
  \/ \E file_path \in LocalPaths, ok \in BOOLEAN : load_image_brush(file_path, ok)
  \/ \E pos \in Pointers : on_mouse_down(pos[1], pos[2])
  \/ \E pos \in Pointers : on_mouse_drag(pos[1], pos[2])
  \/ on_mouse_up

SpecTools == Init /\ [][NextTools]_vars

\* The tools under the pointer as the mouse delivers it: <ButtonPress-1>
\* (line 151) and <ButtonRelease-1> (line 152) alternate, motion events come
\* at any time, and a tool can change while the button is held.
NextPointer ==
  \/ \E color \in COLOR_PALETTE : select_color(color)
  \/ select_eraser
  \/ select_fill_tool
  \/ \E file_path \in LocalPaths, ok \in BOOLEAN : load_image_brush(file_path, ok)
  \/ \E pos \in Pointers : pressed = "none" /\ on_mouse_down(pos[1], pos[2])
  \/ \E pos \in Pointers : on_mouse_drag(pos[1], pos[2])
  \/ pressed # "none" /\ on_mouse_up

SpecPointer == Init /\ [][NextPointer]_vars

\* Save and load: painting with colours and a local image, saving, and
\* loading any of the files.
PersistFiles == FilePaths \ {"mixed.json", "nomode.json", "null.json"}

NextPersist ==
  \/ \E color \in COLOR_PALETTE : select_color(color)
  \/ \E file_path \in LocalPaths, ok \in BOOLEAN : load_image_brush(file_path, ok)
  \/ \E pos \in {<<0, 0>>, <<0, COLS>>} : on_mouse_down(pos[1], pos[2])
  \/ save_canvas
  \/ \E file_path \in PersistFiles, readable \in SUBSET LocalPaths :
       load_canvas(file_path, readable)

SpecPersist == Init /\ [][NextPersist]_vars

\* Loads of every fixed file, the fetches they start and the callbacks of
\* those fetches.
LoadFiles == FilePaths \ {"saved.json"}

NextLoads ==
  \/ \E file_path \in LoadFiles, readable \in SUBSET LocalPaths :
       load_canvas(file_path, readable)
  \/ \E task \in Tasks, ok \in BOOLEAN : load_in_thread(task, ok)
  \/ run_after

SpecLoads == Init /\ [][NextLoads]_vars

\* The brushes at work: every tool selection, the remote brush with its
\* fetch and callbacks, and pointer-downs on the first cell.
NextBrush ==
  \/ \E color \in COLOR_PALETTE : select_color(color)
  \/ select_eraser
  \/ select_fill_tool
  \/ \E file_path \in LocalPaths, ok \in BOOLEAN : load_image_brush(file_path, ok)
  \/ \E url \in PresetUrls : load_preset_image_brush(url)
  \/ \E task \in Tasks, ok \in BOOLEAN : load_in_thread(task, ok)
  \/ run_after
  \/ on_mouse_down(0, 0)

SpecBrush == Init /\ [][NextBrush]_vars

\* The asset traffic with exports of the canvas in between.
NextExport ==
  \/ NextAssets
  \/ export_as_image

SpecExport == Init /\ [][NextExport]_vars

\* ------------------------------------------------- fill_area on its own
\* fill_area is a method: here it is called directly on a grid and a brush
\* drawn from bounded sets, once per behaviour.
FillCells == {WhiteCell, ColorCell("#000000")}

FillBrushes ==
  {[mode |-> "color", color |-> "#000000", info |-> None],
   [mode |-> "color", color |-> "#FF0000", info |-> None],
   [mode |-> "erase", color |-> DefaultColor, info |-> None],
   [mode |-> "image", color |-> "#000000",
    info |-> [type |-> "image_url", val |-> "u1"]],
   [mode |-> "fill", color |-> "#FF0000", info |-> None]}

InitFill ==
  /\ grid_data \in [1 .. ROWS -> [1 .. COLS -> FillCells]]
  /\ \E b \in FillBrushes :
       /\ current_mode = b.mode
       /\ current_color = b.color
       /\ current_image_info = b.info
       /\ cell_images = IF b.info = None THEN {} ELSE {<<b.info.type, b.info.val>>}
  /\ loading_images = {}
  /\ executor = NoTasks
  /\ after_queue = <<>>
  /\ motion_bound = FALSE
  /\ pressed = "none"
  /\ status = St("", "")
  /\ disk = None
  /\ fill_log = NoFill
  /\ canvas = redraw_canvas(grid_data, cell_images)

FillCall(row, col) ==
  /\ fill_log = NoFill
  /\ fill_area(row, col)
  /\ UNCHANGED <<current_mode, current_color, current_image_info, cell_images,
                 loading_images, executor, after_queue, motion_bound, pressed, disk>>

NextFill == \E row \in RowIdx, col \in ColIdx : FillCall(row, col)

SpecFill == InitFill /\ [][NextFill]_vars

\* -------------------------------------------------- flood fill, reference
Orthogonal(p, q) ==
  \/ p[1] = q[1] /\ (p[2] = q[2] + 1 \/ q[2] = p[2] + 1)
  \/ p[2] = q[2] /\ (p[1] = q[1] + 1 \/ q[1] = p[1] + 1)

Diagonal(p, q) ==
  /\ (p[1] = q[1] + 1 \/ q[1] = p[1] + 1)
  /\ (p[2] = q[2] + 1 \/ q[2] = p[2] + 1)

\* The cells joined to p by a chain of orthogonal steps through cells whose
\* content equals the content of p.
RECURSIVE GrowRegion(_, _, _)
GrowRegion(g, content, S) ==
  Only({IF T = S THEN S ELSE GrowRegion(g, content, T) :
          T \in {S \cup {q \in Pos : /\ At(g, q[1], q[2]) = content
                                     /\ \E s \in S : Orthogonal(q, s)}}})

Region(g, p) == GrowRegion(g, At(g, p[1], p[2]), {p})

SeqRange(sq) == {sq[i] : i \in DOMAIN sq}

NoRepeat(sq) == \A i, j \in DOMAIN sq : sq[i] = sq[j] => i = j

Uniform(g) == \A p, q \in Pos : At(g, p[1], p[2]) = At(g, q[1], q[2])

\* A step that is a pass of fill_area (one that got past lines 236-244).
FillStep == fill_log = NoFill /\ fill_log' # NoFill

\* C4: a fill with a replacement different from the start cell's content
\* rewrites exactly the 4-connected region of the start cell to the
\* replacement and leaves every other cell as it was.
C4_FillRewritesExactlyRegion ==
  [][(FillStep /\ fill_log'.new # At(grid_data, fill_log'.row, fill_log'.col))
     => \A region \in {Region(grid_data, <<fill_log'.row, fill_log'.col>>)} :
          \A p \in Pos :
            At(grid_data', p[1], p[2]) =
              IF p \in region THEN fill_log'.new ELSE At(grid_data, p[1], p[2])]_vars

\* A fill from the last cell has turned every cell but a lone black (0,0)
\* into the replacement.
C4_Witness ==
  /\ fill_log.row = ROWS - 1
  /\ fill_log.col = COLS - 1
  /\ fill_log.target = WhiteCell
  /\ fill_log.new = ColorCell("#FF0000")
  /\ At(grid_data, 0, 0) = ColorCell("#000000")
  /\ \A p \in Pos \ {<<0, 0>>} : At(grid_data, p[1], p[2]) = ColorCell("#FF0000")

\* C5: a fill whose replacement equals the start cell's content writes no
\* cell at all and leaves the grid as it was.
C5_SameContentIsNoOp ==
  [][(FillStep /\ fill_log'.new = At(grid_data, fill_log'.row, fill_log'.col))
     => /\ grid_data' = grid_data
        /\ fill_log'.written = <<>>]_vars

\* A fill with the start cell's own content has run on a grid of two colours.
C5_Witness ==
  /\ fill_log # NoFill
  /\ fill_log.target = fill_log.new
  /\ fill_log.written = <<>>
  /\ \E p, q \in Pos : At(grid_data, p[1], p[2]) # At(grid_data, q[1], q[2])

\* C6: a cell holding the target content that is not joined to the start
\* cell by orthogonal steps through target cells keeps its content, also
\* when it touches a written cell at a corner.
C6_NoDiagonalCrossing ==
  [][FillStep
     => \A region \in {Region(grid_data, <<fill_log'.row, fill_log'.col>>)} :
          \A p \in Pos \ region :
            (/\ At(grid_data, p[1], p[2])
                  = At(grid_data, fill_log'.row, fill_log'.col)
             /\ \E q \in SeqRange(fill_log'.written) : Diagonal(p, q))
            => At(grid_data', p[1], p[2]) = At(grid_data, p[1], p[2])]_vars

\* After a fill, a cell still holds the target content although it touches
\* a written cell at a corner.
C6_Witness ==
  /\ fill_log.written # <<>>
  /\ fill_log.new # fill_log.target
  /\ \E p \in Pos :
       /\ At(grid_data, p[1], p[2]) = fill_log.target
       /\ \E q \in SeqRange(fill_log.written) : Diagonal(p, q)

\* C7: every pass ends with an empty queue within the cap and writes no cell
\* twice; on a grid of identical cells, with a different replacement, it
\* writes every cell, ROWS * COLS writes in all.
C7_FillTerminatesWritesOnce ==
  [][FillStep
     => /\ fill_log'.drained
        /\ NoRepeat(fill_log'.written)
        /\ (/\ Uniform(grid_data)
            /\ fill_log'.new # At(grid_data, fill_log'.row, fill_log'.col))
           => /\ Len(fill_log'.written) = ROWS * COLS
              /\ SeqRange(fill_log'.written) = Pos
              /\ \A p \in Pos : At(grid_data', p[1], p[2]) = fill_log'.new]_vars

\* The all-white grid has been filled with red from (0,0).
C7_Witness ==
  /\ fill_log.row = 0
  /\ fill_log.col = 0
  /\ fill_log.target = WhiteCell
  /\ fill_log.new = ColorCell("#FF0000")
  /\ Len(fill_log.written) = ROWS * COLS
  /\ \A p \in Pos : At(grid_data, p[1], p[2]) = ColorCell("#FF0000")

\* ------------------------------------------------------------ the assets
KeyCells(g, mode, val) ==
  {p \in Pos : /\ HasMode(At(g, p[1], p[2]))
               /\ At(g, p[1], p[2]).mode = mode
               /\ At(g, p[1], p[2]).val = val}

Queued(fns, url) ==
  Cardinality({i \in DOMAIN after_queue :
                 after_queue[i].fn \in fns /\ after_queue[i].url = url})

\* The fetches preload_image_from_url has submitted for url whose completion
\* the Tk thread has not processed yet.
PreloadFetches(url) ==
  executor[[kind |-> "preload", url |-> url]]
    + Queued({"cache_and_redraw", "handle_preload_error"}, url)

\* C1: however often a url is requested while no completion for it has been
\* processed, one fetch for it is outstanding: a url has a preload fetch
\* submitted or awaiting its callback exactly when it is in loading_images,
\* and then exactly one.
C1_OneFetchPerRequestedUrl ==
  \A url \in Urls :
    PreloadFetches(url) = IF url \in loading_images THEN 1 ELSE 0

\* twice_u1.json, with two cells naming u1, has been loaded while the fetch
\* an earlier load of u1_u2.json started for u2 is still running: u1 has
\* one fetch.
C1_Witness ==
  /\ status = St("Canvas loaded from", "twice_u1.json")
  /\ Cardinality(KeyCells(grid_data, "image_url", "u1")) >= 2
  /\ loading_images = {"u1", "u2"}
  /\ executor[[kind |-> "preload", url |-> "u1"]] = 1
  /\ executor[[kind |-> "preload", url |-> "u2"]] = 1

\* C2: for each asset key at most one fetch is submitted and not finished,
\* whichever operation submitted it.
C2_AtMostOneActiveFetchPerKey ==
  \A url \in Urls :
    executor[[kind |-> "preload", url |-> url]]
      + executor[[kind |-> "brush", url |-> url]] <= 1

\* The Tk thread runs handle_preload_error(url) in this step.
PreloadErrorProcessed(url) ==
  /\ after_queue # <<>>
  /\ Head(after_queue) = Callback("handle_preload_error", url)
  /\ after_queue' = Tail(after_queue)

\* C3: once the failure of a fetch for a key has been processed, no cell
\* references the key and the key is neither cached nor loading.
C3_FailedFetchLeavesNoTrace ==
  [][\A url \in Urls :
       PreloadErrorProcessed(url)
       => /\ KeyCells(grid_data', "image_url", url) = {}
          /\ <<"image_url", url>> \notin cell_images'
          /\ url \notin loading_images']_vars

\* ------------------------------------------------------------ the fill tool
\* The brush that was selected before the fill tool: select_fill_tool keeps
\* current_color and current_image_info, and the eraser's colour is white.
UnderlyingBrush ==
  IF current_image_info # None
  THEN ImageCell(current_image_info.type, current_image_info.val)
  ELSE ColorCell(current_color)

\* C8: with the fill tool selected, a pointer-down on a cell of the grid
\* flood-fills from that cell with the content of the brush selected before.
C8_FillUsesUnderlyingBrush ==
  [][\A pos \in Pos :
       (current_mode = "fill" /\ on_mouse_down(pos[1], pos[2]))
       => grid_data' = FloodFill(grid_data, pos[1], pos[2], UnderlyingBrush).grid]_vars

\* ---------------------------------------------------------- save and load
\* The document is a nested array whose outer length is not ROWS or one of
\* whose rows has a length other than COLS.
WrongShape(doc) ==
  /\ doc # None
  /\ doc.t = "array"
  /\ \A i \in DOMAIN doc.items : doc.items[i].t = "array"
  /\ \/ Len(doc.items) # ROWS
     \/ \E i \in DOMAIN doc.items : Len(doc.items[i].items) # COLS

\* The step is load_canvas(file_path, readable).  Every load names its file
\* in the status text, which is tested first to pass over the other steps.
LoadStep(file_path, readable) ==
  /\ status'.arg = file_path
  /\ load_canvas(file_path, readable)

\* the fixed files of the wrong shape
WrongShapeFiles == {file_path \in DOMAIN SampleDocs : WrongShape(SampleDocs[file_path])}

\* C9: a load of a document of the wrong shape reports failure and leaves
\* the grid, the cached images and the loading set as they were, and
\* submits no fetch.
C9_WrongShapeLoadChangesNothing ==
  [][\A file_path \in WrongShapeFiles \cup
                       (IF WrongShape(disk) THEN {"saved.json"} ELSE {}),
        readable \in SUBSET LocalPaths :
       LoadStep(file_path, readable)
       => /\ status' = St("Failed to load canvas.", file_path)
          /\ UNCHANGED <<grid_data, cell_images, loading_images, executor>>]_vars

\* A load of a file of the wrong shape has failed on a grid that is not
\* blank, with an image cached and fetches pending.
C9_Witness ==
  /\ status.msg = "Failed to load canvas."
  /\ status.arg \in {"tall.json", "wide.json", "ragged.json"}
  /\ grid_data # BlankGrid
  /\ cell_images # {}
  /\ loading_images # {}

\* Every cell of g is a cell of the program: a dict with a 'mode'.
WellFormed(g) == \A p \in Pos : HasMode(At(g, p[1], p[2]))

\* The step loads the file save_canvas wrote, which holds the grid as it is,
\* a grid of well-formed cells.
LoadOfSavedGrid(readable) ==
  /\ disk # None
  /\ status'.arg = "saved.json"
  /\ WellFormed(grid_data)
  /\ disk = json_dump(grid_data)
  /\ LoadStep("saved.json", readable)

\* C10 as claimed: loading the saved form of the unedited grid yields the
\* same grid, cell for cell.
C10_SaveLoadIdentity ==
  [][\A readable \in SUBSET LocalPaths :
       LoadOfSavedGrid(readable) => grid_data' = grid_data]_vars

\* C10 as amended: loading the saved form of the unedited grid yields the
\* same grid but for the local-image cells whose file does not open or
\* decode during the load, which become the white colour cell.
C10_SaveLoadIdentityButUnreadable ==
  [][\A readable \in SUBSET LocalPaths :
       LoadOfSavedGrid(readable)
       => \A p \in Pos :
            At(grid_data', p[1], p[2]) =
              IF /\ At(grid_data, p[1], p[2]).mode = "image_local"
                 /\ At(grid_data, p[1], p[2]).val \notin readable
              THEN WhiteCell
              ELSE At(grid_data, p[1], p[2])]_vars

\* The saved file has been loaded: a remote-image cell is as saved, and a
\* local-image cell of the file has come back white.
C10_Witness ==
  /\ status = St("Canvas loaded from", "saved.json")
  /\ disk # None
  /\ WellFormed(json_load(disk))
  /\ \E p, q \in Pos :
       /\ At(json_load(disk), p[1], p[2]).mode = "image_local"
       /\ At(grid_data, p[1], p[2]) = WhiteCell
       /\ At(json_load(disk), q[1], q[2]).mode = "image_url"
       /\ At(grid_data, q[1], q[2]) = At(json_load(disk), q[1], q[2])

\* -------------------------------------------------------- loads and fetches
ImageModes == {"image_url", "image_local"}

\* The preload fetches for url that are submitted in pool or whose
\* completion waits in queue.
PreloadFetchesIn(pool, queue, url) ==
  pool[[kind |-> "preload", url |-> url]]
    + Cardinality({i \in DOMAIN queue :
                     /\ queue[i].fn \in {"cache_and_redraw", "handle_preload_error"}
                     /\ queue[i].url = url})

\* The step is a load of file_path that reports success.
LoadSucceeds(file_path, readable) ==
  /\ status' = St("Canvas loaded from", file_path)
  /\ load_canvas(file_path, readable)

\* C11: right after a load that succeeds, the key of every image cell of the
\* new grid is cached, or is in loading_images with a fetch for it submitted
\* or awaiting its callback.
C11_LoadedImageKeysRequested ==
  [][\A file_path \in LoadFiles, readable \in SUBSET LocalPaths :
       LoadSucceeds(file_path, readable)
       => \A p \in Pos :
            \A cell \in {At(grid_data', p[1], p[2])} :
              cell.mode \in ImageModes
              => \/ <<cell.mode, cell.val>> \in cell_images'
                 \/ /\ cell.mode = "image_url"
                    /\ cell.val \in loading_images'
                    /\ PreloadFetchesIn(executor', after_queue', cell.val) >= 1]_vars

\* mixed.json has just been loaded with its local file readable: the local
\* key is cached and the two urls each have a fetch running.
C11_Witness ==
  /\ status = St("Canvas loaded from", "mixed.json")
  /\ At(grid_data, 0, 0) = ImageCell("image_url", "u1")
  /\ At(grid_data, 0, 2) = ImageCell("image_local", "p1")
  /\ At(grid_data, ROWS - 1, COLS - 1) = ImageCell("image_url", "u2")
  /\ <<"image_local", "p1">> \in cell_images
  /\ loading_images = {"u1", "u2"}
  /\ executor[[kind |-> "preload", url |-> "u1"]] = 1
  /\ executor[[kind |-> "preload", url |-> "u2"]] = 1

\* C12: the clear a load performs before it installs the new grid (line 436)
\* leaves no cached image and no url marked as loading.
C12_ClearDropsAllBookkeeping ==
  [][\A file_path \in LoadFiles, readable \in SUBSET LocalPaths :
       LoadSucceeds(file_path, readable)
       => \A st \in {clear([cell_images |-> cell_images,
                            loading_images |-> loading_images])} :
            /\ st.cell_images = {}
            /\ st.loading_images = {}]_vars

\* The Tk thread runs the completion callback of the preload fetch for url in
\* this step.
CompletionProcessed(url) ==
  /\ after_queue # <<>>
  /\ Head(after_queue).fn \in {"cache_and_redraw", "handle_preload_error"}
  /\ Head(after_queue).url = url
  /\ after_queue' = Tail(after_queue)

\* the fixed files a load accepts as far as line 435
ShapedFiles ==
  {file_path \in LoadFiles :
     /\ SampleDocs[file_path] \notin {None, Garbage}
     /\ ~BadDimensions(json_load(SampleDocs[file_path]))}

\* the urls the cells of each such file name
UrlsOf ==
  [file_path \in ShapedFiles |->
     {url \in Urls :
        KeyCells(json_load(SampleDocs[file_path]), "image_url", url) # {}}]

\* The status text names the latest load, which cleared the cache; that load
\* requested only the urls of its file, so a fetch now outstanding for any
\* other url was dispatched before that clear.
DispatchedBeforeClear(url) ==
  /\ status.msg = "Canvas loaded from"
  /\ status.arg \in ShapedFiles
  /\ url \notin UrlsOf[status.arg]

\* C13: processing the completion of a fetch dispatched before the latest
\* clear adds no image to the cache and changes no cell of the grid.
C13_StaleCompletionDiscarded ==
  [][\A url \in Urls :
       (DispatchedBeforeClear(url) /\ CompletionProcessed(url))
       => /\ cell_images' = cell_images
          /\ grid_data' = grid_data]_vars

\* ------------------------------------------------- the export and the view
\* The choice the claim names for a cell: its colour, its decoded image when
\* the key is cached, the placeholder otherwise.
CellChoice(cell, images) ==
  IF cell.mode = "color" THEN [item |-> "rectangle", fill |-> cell.val]
  ELSE IF <<cell.mode, cell.val>> \in images
       THEN [item |-> "image", image |-> <<cell.mode, cell.val>>]
       ELSE [item |-> "rectangle", fill |-> Placeholder]

\* C14: in every state whose grid holds well-formed cells, what the canvas
\* shows for a cell and what an export puts on the raster for it are both
\* the choice for that cell and the cache as they are now.
C14_ExportMatchesLiveView ==
  WellFormed(grid_data)
  => \A p \in Pos :
       \A choice \in {CellChoice(At(grid_data, p[1], p[2]), cell_images)} :
         /\ ExportItem(At(grid_data, p[1], p[2]), cell_images) = choice
         /\ canvas[p[1] + 1][p[2] + 1] = choice

\* ------------------------------------------------------ the tool selections
\* The step selects a tool: a colour, the eraser, the fill tool, a local
\* image, a preset image, or it is the worker or a callback of a preset
\* image load (its completion update_brush, or the fallback to black and the
\* status text of its failure).
ToolSelection ==
  \/ \E color \in COLOR_PALETTE : select_color(color)
  \/ select_eraser
  \/ select_fill_tool
  \/ \E file_path \in LocalPaths, ok \in BOOLEAN : load_image_brush(file_path, ok)
  \/ \E url \in PresetUrls : load_preset_image_brush(url)
  \/ \E url \in PresetUrls, ok \in BOOLEAN :
       load_in_thread([kind |-> "brush", url |-> url], ok)
  \/ /\ after_queue # <<>>
     /\ Head(after_queue).fn \in {"update_brush", "select_color", "update_status"}
     /\ run_after

\* C15: a tool selection, the asynchronous end of a preset image load
\* included, changes no cell of the grid.
C15_ToolSelectionKeepsGrid ==
  [][ToolSelection => grid_data' = grid_data]_vars

\* update_brush has just made the preset u1 the brush, on a grid whose first
\* cell was painted red before.
C15_Witness ==
  /\ status = St("Tool: Image, Preset", "u1")
  /\ current_mode = "image"
  /\ current_image_info = [type |-> "image_url", val |-> "u1"]
  /\ At(grid_data, 0, 0) = ColorCell("#FF0000")

\* ---------------------------------------------------------------- painting
\* The cell a paint writes in the current brush state.
Replacement ==
  CASE current_mode = "color" -> [mode |-> "color", val |-> current_color]
    [] current_mode = "erase" -> [mode |-> "color", val |-> "#ffffff"]
    [] current_mode = "image" ->
         [mode |-> current_image_info.type, val |-> current_image_info.val]

\* The step is a pointer-down or a drag on the cell pos.
PointerStep(pos) ==
  \/ on_mouse_down(pos[1], pos[2])
  \/ on_mouse_drag(pos[1], pos[2])

\* C16: with a colour, the eraser or an image as the brush, a pointer event
\* on a cell of the grid sets that cell to the brush's replacement and
\* leaves every other cell as it was; a pointer event off the grid, with
\* any tool, changes no cell.
C16_PaintSetsExactlyOneCell ==
  [][\A pos \in Pointers :
       ((current_mode # "fill" \/ pos \notin Pos) /\ PointerStep(pos))
       => \A p \in Pos :
            At(grid_data', p[1], p[2]) =
              IF p = pos THEN Replacement ELSE At(grid_data, p[1], p[2])]_vars

\* A colour and the local image have each been painted on their own cell,
\* every other cell is still white, and the eraser is now the brush with the
\* pointer down.
C16_Witness ==
  /\ motion_bound
  /\ At(grid_data, 0, 0) = ColorCell("#FF0000")
  /\ At(grid_data, 0, 1) = ImageCell("image_local", "p1")
  /\ current_mode = "erase"
  /\ \A p \in Pos \ {<<0, 0>>, <<0, 1>>} : At(grid_data, p[1], p[2]) = WhiteCell

\* ------------------------------------------------------------ failed loads
\* The step is a load of file_path that reports failure.
LoadFails(file_path, readable) ==
  /\ status' = St("Failed to load canvas.", file_path)
  /\ load_canvas(file_path, readable)

\* C17: a load that reports failure, whatever the reason, leaves the grid
\* and the cached images exactly as they were.
C17_FailedLoadChangesNothing ==
  [][\A file_path \in LoadFiles, readable \in SUBSET LocalPaths :
       LoadFails(file_path, readable)
       => /\ grid_data' = grid_data
          /\ cell_images' = cell_images]_vars

\* ------------------------------------------------------------- the workers
\* A worker ends in this step: a task leaves the pool.
WorkerStep == \E task \in Tasks : executor'[task] < executor[task]

\* The Tk thread runs a callback a worker posted.
CallbackStep == after_queue # <<>> /\ after_queue' = Tail(after_queue)

\* C18: a worker's step changes neither the cached images, the loading set,
\* the grid nor the brush, it only posts callbacks; a remote image enters the
\* cache, and a url leaves the loading set, only in a step of the Tk thread
\* that runs a posted callback.
C18_WorkersOnlyPost ==
  [][/\ WorkerStep
        => /\ UNCHANGED <<cell_images, loading_images, grid_data, current_mode,
                          current_color, current_image_info>>
           /\ Len(after_queue') > Len(after_queue)
           /\ SubSeq(after_queue', 1, Len(after_queue)) = after_queue
     /\ (\E url \in Urls : <<"image_url", url>> \in cell_images' \ cell_images)
        => CallbackStep
     /\ (loading_images \ loading_images' # {}) => CallbackStep]_vars

\* The worker fetching u1 for a load has ended and its callback waits: u1 is
\* still marked as loading and not cached, and the cells naming it are as
\* loaded.
C18_Witness ==
  /\ after_queue # <<>>
  /\ Head(after_queue) = Callback("cache_and_redraw", "u1")
  /\ executor[[kind |-> "preload", url |-> "u1"]] = 0
  /\ "u1" \in loading_images
  /\ <<"image_url", "u1">> \notin cell_images
  /\ KeyCells(grid_data, "image_url", "u1") # {}

\* ----------------------------------------------------------- failed fetches
\* the grids the fixed files hold
Loaded == [file_path \in ShapedFiles |-> json_load(SampleDocs[file_path])]

\* C19: handling the failure of the fetch for a url changes only cells that
\* hold that url as a remote image and changes no cached image; a load
\* during which a local file does not open changes, of the file's cells,
\* only those that hold that file as a local image.
C19_FailureTouchesOnlyItsCells ==
  [][/\ \A url \in Urls :
          PreloadErrorProcessed(url)
          => /\ \A p \in Pos :
                  At(grid_data', p[1], p[2]) # At(grid_data, p[1], p[2])
                  => At(grid_data, p[1], p[2]) = [mode |-> "image_url", val |-> url]
             /\ cell_images' = cell_images
     /\ \A file_path \in ShapedFiles, readable \in SUBSET LocalPaths :
          LoadStep(file_path, readable)
          => \A p \in Pos :
               \A cell \in {At(Loaded[file_path], p[1], p[2])} :
                 At(grid_data', p[1], p[2]) # cell
                 => /\ HasMode(cell)
                    /\ cell.mode = "image_local"
                    /\ cell.val \notin readable]_vars

\* mixed.json is loaded and the failure of the fetch for u1 has been
\* handled: the cell that named u1 is white, the colour cell, the local
\* image and the cell naming u2 are as loaded, the local image still cached.
C19_Witness ==
  /\ status = St("Canvas loaded from", "mixed.json")
  /\ At(grid_data, 0, 0) = WhiteCell
  /\ At(grid_data, 0, 1) = ColorCell("#000000")
  /\ At(grid_data, 0, 2) = ImageCell("image_local", "p1")
  /\ At(grid_data, ROWS - 1, COLS - 1) = ImageCell("image_url", "u2")
  /\ "u1" \notin loading_images
  /\ <<"image_local", "p1">> \in cell_images

\* ------------------------------------------------------ dangling image cells
\* A fetch that will cache the remote image url is submitted or its callback
\* waits: a preload, or a preset brush load.
FetchInFlight(url) ==
  \/ PreloadFetches(url) > 0
  \/ executor[[kind |-> "brush", url |-> url]] > 0
  \/ Queued({"update_brush"}, url) > 0

\* C20: in every state, the key of every image cell of the grid is cached or
\* has a fetch in flight.
C20_NoDanglingImageCell ==
  \A p \in Pos :
    \A cell \in {At(grid_data, p[1], p[2])} :
      (HasMode(cell) /\ cell.mode \in ImageModes)
      => \/ <<cell.mode, cell.val>> \in cell_images
         \/ cell.mode = "image_url" /\ FetchInFlight(cell.val)

\* ------------------------------------------------- the latest tool selection
\* The status texts only a selection by the user leaves: a palette colour
\* other than the black of the fallback, the eraser, the fill tool, a local
\* image.  load_preset_image_brush replaces the text, so while one of these
\* shows, every preset load still outstanding was requested before that
\* selection.
UserSelected ==
  \/ status.msg = "Tool: Pixel" /\ status.arg \in COLOR_PALETTE \ {"#000000"}
  \/ status.msg \in {"Tool: Eraser", "Tool: Fill", "Tool: Image, File"}

\* The Tk thread runs, in this step, a callback of a preset image load that
\* assigns the brush: update_brush, or the fallback select_color('#000000').
BrushCallbackStep ==
  /\ after_queue # <<>>
  /\ Head(after_queue).fn \in {"update_brush", "select_color"}
  /\ after_queue' = Tail(after_queue)

\* C21: the completion or the failure of a preset image load requested
\* before the latest tool selection leaves the brush as that selection set
\* it.
C21_LateCompletionKeepsBrush ==
  [][(UserSelected /\ BrushCallbackStep)
     => UNCHANGED <<current_mode, current_color, current_image_info>>]_vars

\* ------------------------------------------------ every fetch is completed
\* The pool of line 67 runs every submitted task (requests.get has a
\* timeout of five seconds, line 463), and the Tk main loop of line 557 runs
\* every callback posted with root.after; close_app is not part of NextLoads.
FairLoads ==
  /\ SpecLoads
  /\ \A task \in Tasks : WF_vars(\E ok \in BOOLEAN : load_in_thread(task, ok))
  /\ WF_vars(run_after)

\* C22: under fair workers and a fair Tk main loop, a url in loading_images
\* eventually is not in loading_images, whatever loads come in between; and
\* the step that removes it caches its key or, on a well-formed grid, leaves
\* no cell that names it.
C22_InFlightEventuallyLeaves ==
  /\ \A url \in Urls : (url \in loading_images) ~> (url \notin loading_images)
  /\ [][\A url \in loading_images \ loading_images' :
          \/ <<"image_url", url>> \in cell_images'
          \/ WellFormed(grid_data) => KeyCells(grid_data', "image_url", url) = {}]_vars

\* The image u1 is cached and no longer loading although the latest load,
\* of local.json, emptied the cache and names no url: the fetch of u1 started
\* by an earlier load was completed after that load.
C22_Witness ==
  /\ status = St("Canvas loaded from", "local.json")
  /\ <<"image_url", "u1">> \in cell_images
  /\ "u1" \notin loading_images

\* ------------------------------------------------------- drags and the grid
\* The step is a motion event handled by the <B1-Motion> binding.
DragStep == \E pos \in Pointers : on_mouse_drag(pos[1], pos[2])

\* C23: a drag changes the grid only while button 1 is held after a press
\* made with a tool other than fill; with the button up, or held after a
\* press made with the fill tool, a drag changes no cell, and no drag runs a
\* fill pass.
C23_DragPaintsOnlyAfterPaintPress ==
  [][DragStep => /\ grid_data' # grid_data => pressed = "paint"
                 /\ fill_log' = fill_log]_vars

\* Button 1 is held after a press made with the red colour, the binding is
\* in place, and the first cell and its right neighbour are red.
C23_Witness ==
  /\ pressed = "paint"
  /\ motion_bound
  /\ current_color = "#FF0000"
  /\ At(grid_data, 0, 0) = ColorCell("#FF0000")
  /\ At(grid_data, 0, 1) = ColorCell("#FF0000")
  /\ At(grid_data, Last[1], Last[2]) = WhiteCell

\* ------------------------------------------------------ the shape of the grid
\* C24: in every state the grid has ROWS rows of COLS cells and no cell is
\* None.
C24_GridIsFullyPopulated ==
  /\ Len(grid_data) = ROWS
  /\ \A r \in DOMAIN grid_data : Len(grid_data[r]) = COLS
  /\ \A p \in Pos : At(grid_data, p[1], p[2]) # None

====
